---- MODULE Spec2Model ----
(***************************************************************************)
(* A model of the StreamDeck device-protocol layer (src/src/lib.rs):       *)
(* key-index translation, the chunked image-report writer and the          *)
(* input-report decoder.                                                   *)
(*                                                                         *)
(* Rust slices and arrays are modelled as TLA+ sequences; the element the  *)
(* source calls a[i] (0-based) is At(a, i) here.  A panic of the program   *)
(* (unimplemented!(), an out-of-range slice) is the result "panic".        *)
(***************************************************************************)
EXTENDS Integers, Sequences, FiniteSets, TLC

VARIABLES
    kind,       \* StreamDeck.kind
    pc,         \* position of the caller inside the API
    op,         \* the operation that is running or has returned
    key,        \* write_button_image: the logical key argument
    image,      \* write_button_image: image.data
    nkey,       \* write_button_image: the translated key
    buf,        \* write_button_image: the report buffer
    sequence,   \* write_button_image: the chunk counter
    offset,     \* write_button_image: bytes of the image already taken
    written,    \* every HID write attempted by the running transfer, in order
    rd,         \* read_input / read_buttons: the timeout given, what the transport did, cmd
    result,     \* how the operation ended: "Ok", an Error, or "panic"
    value,      \* the value inside Ok(..) of a read
    feature,    \* set_brightness: the argument and the feature report sent
    cap         \* the capability record the chunking loop runs with

vars == <<kind, pc, op, key, image, nkey, buf, sequence, offset, written, rd, result, value,
          feature, cap>>

(***************************************************************************)
(* Bounds of the model.                                                    *)
(***************************************************************************)
\* Images of the generic chunker span up to MaxChunks full chunks (+1 byte).
MaxChunks == 2
\* Logical keys tried run up to keys + MaxKeyExcess.
MaxKeyExcess == 1
\* Capability records tried leave up to MaxRoom bytes after the header.
MaxRoom == 3
\* Images chunked under those records have up to MaxCapImage bytes.
MaxCapImage == 4
\* A transfer under those records is followed for up to MaxReports reports.
MaxReports == 6

(***************************************************************************)
(* Program constants of lib.rs.                                            *)
(***************************************************************************)
\* read_input: let mut cmd = [0u8; 36]
CmdLen == 36
\* write_button_image, Original: image[0..7749]
OriginalFirstLen == 7749
\* write_button_image, Original: buf[hdrlen..hdrlen + 7803]
OriginalSecondLen == 7803
\* write_button_image, Original: image[7749..15552]
OriginalImageEnd == 15552
\* set_brightness: let mut cmd = [0u8; 17]
FeatureLen == 17

(***************************************************************************)
(* Slices.                                                                 *)
(***************************************************************************)
Min(a, b) == IF a < b THEN a ELSE b

\* a[i], 0-based
At(a, i) == a[i + 1]

\* vec![0u8; n]
Zeros(n) == [i \in 1..n |-> 0]

\* &a[from..to], 0-based and half-open; the caller checks the range
Slice(a, from, to) == [i \in 1..(to - from) |-> a[from + i]]

\* a[start..start + src.len()].copy_from_slice(src)
CopyFromSlice(a, start, src) ==
    [i \in 1..Len(a) |->
        IF i > start /\ i <= start + Len(src) THEN src[i - start] ELSE a[i]]

\* (x as u16).to_le_bytes()
U16LeBytes(x) == << (x % 65536) % 256, (x % 65536) \div 256 >>

\* u16::from_le_bytes([lo, hi])
U16FromLe(lo, hi) == lo + 256 * hi

(***************************************************************************)
(* The capability table (Kind, in info.rs).  info.rs is not among the      *)
(* sources read here; the table carries the values of the device family,   *)
(* which the constants of lib.rs fit: cmd holds 36 = 32 + 3 + 1 bytes      *)
(* (Xl), 16 + 54 + 7749 <= 8191 (Original), 72 * 72 * 3 = 15552.           *)
(***************************************************************************)
Kinds == {"Original", "OriginalV2", "Mini", "Xl", "Mk2", "Plus"}

keys(k) ==
    CASE k \in {"Original", "OriginalV2", "Mk2"} -> 15
      [] k = "Mini" -> 6
      [] k = "Xl" -> 32
      [] k = "Plus" -> 8

key_columns(k) ==
    CASE k \in {"Original", "OriginalV2", "Mk2"} -> 5
      [] k = "Mini" -> 3
      [] k = "Xl" -> 8
      [] k = "Plus" -> 4

key_direction(k) == IF k = "Original" THEN "RightToLeft" ELSE "LeftToRight"

key_data_offset(k) == IF k \in {"Original", "Mini"} THEN 0 ELSE 3

is_v2(k) == k \in {"OriginalV2", "Xl", "Mk2", "Plus"}

image_report_len(k) == IF k = "Original" THEN 8191 ELSE 1024

image_report_header_len(k) == IF k \in {"Original", "Mini"} THEN 16 ELSE 8

\* The 54-byte BMP file header sent ahead of the pixels of a Bmp kind.
BmpHeader ==
    << 66, 77, 246, 60, 0, 0, 0, 0, 0, 0, 54, 0, 0, 0, 40, 0,
       0, 0, 72, 0, 0, 0, 72, 0, 0, 0, 1, 0, 24, 0, 0, 0,
       0, 0, 192, 60, 0, 0, 196, 14, 0, 0, 196, 14, 0, 0, 0, 0,
       0, 0, 0, 0, 0, 0 >>

image_base(k) == IF k \in {"Original", "Mini"} THEN BmpHeader ELSE << >>

(***************************************************************************)
(* Inputs.                                                                 *)
(***************************************************************************)
\* A DeviceImage of n bytes: neighbouring bytes differ and none is zero, so a
\* byte of the image is told from padding and from its neighbours.
Image(n) == [i \in 1..n |-> (((i - 1) * 7) % 251) + 1]

\* The payload room of the first chunk and of a later chunk.
FirstRoom(k) == image_report_len(k) - image_report_header_len(k) - Len(image_base(k))
LaterRoom(k) == image_report_len(k) - image_report_header_len(k)

\* Image lengths tried: around every chunk boundary up to MaxChunks chunks for
\* the generic chunker, around the two fixed split points for Original.
ImageLens(k) ==
    IF k = "Original"
    THEN {OriginalFirstLen - 1, OriginalImageEnd - 1, OriginalImageEnd, OriginalImageEnd + 1}
    ELSE {0, 1} \cup
         {FirstRoom(k) + j * LaterRoom(k) + d : j \in 0..(MaxChunks - 1), d \in {-1, 0, 1}}

\* Logical keys tried: both ends of the valid range and the values past it.
KeyArgs(k) == {0, 1, key_columns(k) - 1, keys(k) - key_columns(k), keys(k) - 1} \cup
              {keys(k) + e : e \in 0..MaxKeyExcess}

(***************************************************************************)
(* translate_key_index                                                     *)
(***************************************************************************)
\* if key > self.kind.keys() { return Err(Error::InvalidKeyIndex) }
KeyRejected(k, ky) == ky > keys(k)

\* Mutant: the reversed column counted from 0 (cols - 1 - col).
RightToLeftIndex_ZeroBased(k, ky) ==
    LET cols == key_columns(k)
        col  == ky % cols
        row  == ky \div cols
    IN  (row * cols + cols - 1 - col) % 256

\* row * cols + cols - col, in u8
RightToLeftIndex(k, ky) ==
    LET cols == key_columns(k)
        col  == ky % cols
        row  == ky \div cols
    IN  (row * cols + cols - col) % 256

translate_key_index(k, ky) ==
    IF KeyRejected(k, ky)
    THEN [ok |-> FALSE, val |-> 0]
    ELSE [ok |-> TRUE,
          val |-> IF key_direction(k) = "LeftToRight" THEN ky
                  ELSE RightToLeftIndex(k, ky)]

(***************************************************************************)
(* read_input and read_buttons                                             *)
(***************************************************************************)
NoRead == [timeout |-> FALSE, outcome |-> "none", cmd |-> << >>]
NoValue == [type |-> "None"]

\* The bytes the read asks the transport for: cmd[..keys + offset + 1]
ReadLen(k) == keys(k) + key_data_offset(k) + 1

\* An input report as the device sends it, cut to the ReadLen(k) bytes asked
\* for: first byte b0, tag bytes t, optional sub-tag bytes s at 4 and 5, and
\* elsewhere either zeros or a ramp of distinct non-zero bytes.
ReportBytes(k, b0, t, s, ramp) ==
    [j \in 1..ReadLen(k) |->
        CASE j = 1 -> b0
          [] j = 2 -> t[1]
          [] j = 3 -> t[2]
          [] j = 5 /\ s # << >> -> s[1]
          [] j = 6 /\ s # << >> -> s[2]
          [] OTHER -> IF ramp THEN 16 + j ELSE 0]

FirstBytes == {0, 1}
Tags == { <<0, 8>>, <<2, 14>>, <<3, 5>>, <<0, 0>>, <<1, 8>> }
SubTags == { << >>, <<1, 1>>, <<2, 1>>, <<3, 0>>, <<0, 1>>, <<1, 0>>, <<4, 0>>, <<2, 0>> }

\* The transport's read(buf) / read_timeout(buf, ms): Err(HidError); Ok(0) with
\* buf untouched when no report arrived (the timeout expired, or the device is
\* in non-blocking mode); Ok(n) with the report copied to the front of buf.
TransportRead(k, outcome, report) ==
    IF outcome = "report"
    THEN CopyFromSlice(Zeros(CmdLen), 0, report)
    ELSE Zeros(CmdLen)

\* cmd[x] as i8
AsI8(b) == IF b >= 128 THEN b - 256 ELSE b

\* Mutant: the RightToLeft branch adds the 1 of the LeftToRight branch.
ButtonIndex_PlusOne(k, i) ==
    IF key_direction(k) = "RightToLeft"
    THEN 1 + key_data_offset(k) + translate_key_index(k, i).val
    ELSE 1 + key_data_offset(k) + i

\* The key states of a report: RightToLeft reads cmd[offset + translate(i)],
\* LeftToRight copies cmd[1 + offset..1 + offset + keys].
ButtonIndex(k, i) ==
    IF key_direction(k) = "RightToLeft"
    THEN key_data_offset(k) + translate_key_index(k, i).val
    ELSE 1 + key_data_offset(k) + i

ButtonStates(k, cmd) ==
    IF key_direction(k) = "RightToLeft" /\ \E i \in 0..(keys(k) - 1) : ~translate_key_index(k, i).ok
    THEN [result |-> "InvalidKeyIndex", value |-> NoValue]
    ELSE IF \E i \in 0..(keys(k) - 1) : ButtonIndex(k, i) >= CmdLen
    THEN [result |-> "panic", value |-> NoValue]
    ELSE [result |-> "Ok",
          value |-> [type |-> "Button",
                     states |-> [i \in 1..keys(k) |-> At(cmd, ButtonIndex(k, i - 1))]]]

\* match (cmd[4], cmd[5]) of a touch report
TouchInput(cmd) ==
    LET x == U16FromLe(At(cmd, 6), At(cmd, 7))
        y == At(cmd, 8)
        s == << At(cmd, 4), At(cmd, 5) >>
    IN  CASE s = <<1, 1>> ->
               [result |-> "Ok", value |-> [type |-> "Touch", touch |-> "Short", x |-> x, y |-> y]]
          [] s = <<2, 1>> ->
               [result |-> "Ok", value |-> [type |-> "Touch", touch |-> "Long", x |-> x, y |-> y]]
          [] s = <<3, 0>> ->
               [result |-> "Ok",
                value |-> [type |-> "Touch", touch |-> "Swipe", x0 |-> x, y0 |-> y,
                           x1 |-> U16FromLe(At(cmd, 10), At(cmd, 11)), y1 |-> y]]
          [] OTHER -> [result |-> "panic", value |-> NoValue]

\* match cmd[4] of a knob report
KnobInput(cmd) ==
    CASE At(cmd, 4) = 0 ->
           [result |-> "Ok", value |-> [type |-> "Knob", knob |-> "Press",
                                       data |-> Slice(cmd, 5, 9)]]
      [] At(cmd, 4) = 1 ->
           [result |-> "Ok", value |-> [type |-> "Knob", knob |-> "Rotate",
                                       data |-> [i \in 1..4 |-> AsI8(At(cmd, 4 + i))]]]
      [] OTHER -> [result |-> "panic", value |-> NoValue]

\* read_input after the transport call: cmd is the 36-byte buffer
DecodeInput(k, cmd) ==
    IF At(cmd, 0) = 0
    THEN [result |-> "NoData", value |-> NoValue]
    ELSE LET tag == << At(cmd, 1), At(cmd, 2) >> IN
         CASE tag = <<0, 8>>  -> ButtonStates(k, cmd)
           [] tag = <<2, 14>> -> TouchInput(cmd)
           [] tag = <<3, 5>>  -> KnobInput(cmd)
           [] OTHER -> [result |-> "Ok", value |-> [type |-> "Other"]]

\* read_buttons after the transport call
DecodeButtons(k, cmd) ==
    IF At(cmd, 0) = 0
    THEN [result |-> "NoData", value |-> NoValue]
    ELSE ButtonStates(k, cmd)

\* One whole read: the transport call, then the decoding.
Read(name, timeout, outcome, report) ==
    /\ pc = "idle"
    /\ op' = name
    /\ pc' = "done"
    /\ LET cmd == TransportRead(kind, outcome, report)
           d   == IF name = "read_input" THEN DecodeInput(kind, cmd)
                  ELSE DecodeButtons(kind, cmd)
       IN  /\ rd' = [timeout |-> timeout, outcome |-> outcome, cmd |-> cmd]
           /\ result' = IF outcome = "error" THEN "Hid" ELSE d.result
           /\ value' = IF outcome = "error" THEN NoValue ELSE d.value
    /\ UNCHANGED <<kind, key, image, nkey, buf, sequence, offset, written, feature, cap>>

read_input(timeout, outcome, report) == Read("read_input", timeout, outcome, report)

read_buttons(timeout, outcome, report) == Read("read_buttons", timeout, outcome, report)

Reports(k) ==
    {ReportBytes(k, b0, t, s, ramp) :
        b0 \in FirstBytes, t \in Tags, s \in SubTags, ramp \in BOOLEAN}

(***************************************************************************)
(* set_brightness                                                          *)
(***************************************************************************)
NoFeature == [arg |-> 0, report |-> << >>]

\* Every u8 the caller may pass.
Brightnesses == 0..255

\* Mutant: the value is sent as given.
ClampBrightness_Unclamped(b) == b

\* let brightness = brightness.min(100)
ClampBrightness(b) == Min(b, 100)

\* cmd with the opcode bytes and the brightness copied to its front
BrightnessReport(k, b) ==
    IF is_v2(k)
    THEN CopyFromSlice(Zeros(FeatureLen), 0, << 3, 8, ClampBrightness(b) >>)
    ELSE CopyFromSlice(Zeros(FeatureLen), 0, << 5, 85, 170, 209, 1, ClampBrightness(b) >>)

\* set_brightness(brightness): the report is handed to send_feature_report,
\* whose failure is returned
set_brightness(b, ok) ==
    /\ pc = "idle"
    /\ op' = "set_brightness"
    /\ pc' = "done"
    /\ feature' = [arg |-> b, report |-> BrightnessReport(kind, b)]
    /\ result' = IF ok THEN "Ok" ELSE "Hid"
    /\ UNCHANGED <<kind, key, image, nkey, buf, sequence, offset, written, rd, value, cap>>

(***************************************************************************)
(* write_image_header                                                      *)
(***************************************************************************)
Bit(b) == IF b THEN 1 ELSE 0

\* Mutant: the legacy layout with the sequence number big-endian.
write_image_header_BigEndian(k, b, ky, seq, is_last, payload_len) ==
    IF is_v2(k)
    THEN CopyFromSlice(b, 0,
            << 2, 7, ky, Bit(is_last) >> \o U16LeBytes(payload_len) \o U16LeBytes(seq))
    ELSE CopyFromSlice(b, 0,
            << 2, 1, (seq % 65536) \div 256, seq % 256, Bit(is_last), ky >>)

write_image_header(k, b, ky, seq, is_last, payload_len) ==
    IF is_v2(k)
    THEN CopyFromSlice(b, 0,
            << 2, 7, ky, Bit(is_last) >> \o U16LeBytes(payload_len) \o U16LeBytes(seq))
    ELSE CopyFromSlice(b, 0,
            << 2, 1 >> \o U16LeBytes(seq) \o << Bit(is_last), ky >>)

(***************************************************************************)
(* write_button_image                                                      *)
(***************************************************************************)
\* What the transfer leaves behind for every device.write(&buf) it attempts:
\* the report, whether the transport took it, and the chunk's place
\* (start in the report, take bytes from image offset from).
Attempt(report, ok, start, take, from) ==
    [report |-> report, ok |-> ok, start |-> start, take |-> take, from |-> from]

\* Mutant: take is not recalculated for the room the base uses.
ChunkTake_NoBaseRoom(k, imgLen, off, seq) ==
    Min(imgLen - off, image_report_len(k) - image_report_header_len(k))

\* let mut take = (image.len() - offset).min(maxdatalen), recalculated with the
\* smaller room when the base is written
ChunkTake(k, imgLen, off, seq) ==
    LET maxdatalen == image_report_len(k) - image_report_header_len(k)
    IN  IF seq = 0 /\ Len(image_base(k)) > 0
        THEN Min(imgLen - off, maxdatalen - Len(image_base(k)))
        ELSE Min(imgLen - off, maxdatalen)

\* let mut start = hdrlen; start += base.len() when the base is written
ChunkStart(k, seq) ==
    IF seq = 0 /\ Len(image_base(k)) > 0
    THEN image_report_header_len(k) + Len(image_base(k))
    ELSE image_report_header_len(k)

\* Mutant: the last chunk recognised one byte early.
ChunkIsLast_OffByOne(take, imgLen, off) == take >= imgLen - off - 1

\* let is_last = take == image.len() - offset
ChunkIsLast(take, imgLen, off) == take = imgLen - off

\* One iteration's buffer: the base (first chunk), the header, the payload.
ChunkReport(k, b, ky, img, off, seq) ==
    LET take    == ChunkTake(k, Len(img), off, seq)
        start   == ChunkStart(k, seq)
        based   == IF seq = 0 /\ Len(image_base(k)) > 0
                   THEN CopyFromSlice(b, image_report_header_len(k), image_base(k))
                   ELSE b
        headed  == write_image_header(k, based, ky, seq,
                                      ChunkIsLast(take, Len(img), off), take)
    IN  CopyFromSlice(headed, start, Slice(img, off, off + take))

\* sequence += 1 (u16; the bounds keep it far from 65535)
NextSequence(seq) == (seq + 1) % 65536

\* Mutant: offset = take in place of offset += take.
NextOffset_Assign(off, take) == take

\* offset += take
NextOffset(off, take) == off + take

\* Mutant: the result of device.write is dropped.
AfterWrite_IgnoreError(ok, next) == next

\* self.device.write(&buf)?: where the transfer goes after a write
AfterWrite(ok, next) == IF ok THEN next ELSE "done"

(***************************************************************************)
(* The chunking loop of write_button_image as a function of the capability *)
(* record alone: report length, header length, base, header layout.        *)
(***************************************************************************)
\* The record of a kind of the table.
Capability(k) ==
    [report_len |-> image_report_len(k), header_len |-> image_report_header_len(k),
     base |-> image_base(k), v2 |-> is_v2(k)]

\* Records other than the table's: either header layout and length, up to
\* MaxRoom bytes after the header, a base of any length that fits.
CapRecords ==
    {[report_len |-> h + room, header_len |-> h,
      base |-> SubSeq(BmpHeader, 1, b), v2 |-> v] :
        h \in {8, 16}, room \in 0..MaxRoom, b \in 0..MaxRoom, v \in BOOLEAN}

\* image_report_header_len + image_base.len() <= image_report_len
CapInvariant(c) == c.header_len + Len(c.base) <= c.report_len

\* let mut take = (image.len() - offset).min(maxdatalen), recalculated with the
\* smaller room when the base is written
CapTake(c, imgLen, off, seq) ==
    LET maxdatalen == c.report_len - c.header_len
    IN  IF seq = 0 /\ Len(c.base) > 0
        THEN Min(imgLen - off, maxdatalen - Len(c.base))
        ELSE Min(imgLen - off, maxdatalen)

\* let mut start = hdrlen; start += base.len() when the base is written
CapStart(c, seq) ==
    IF seq = 0 /\ Len(c.base) > 0 THEN c.header_len + Len(c.base) ELSE c.header_len

\* write_image_header with the layout of the record
CapHeader(c, b, ky, seq, is_last, payload_len) ==
    IF c.v2
    THEN CopyFromSlice(b, 0,
            << 2, 7, ky, Bit(is_last) >> \o U16LeBytes(payload_len) \o U16LeBytes(seq))
    ELSE CopyFromSlice(b, 0,
            << 2, 1 >> \o U16LeBytes(seq) \o << Bit(is_last), ky >>)

\* One iteration's buffer: the base (first chunk), the header, the payload.
CapReport(c, b, ky, img, off, seq) ==
    LET take   == CapTake(c, Len(img), off, seq)
        based  == IF seq = 0 /\ Len(c.base) > 0
                  THEN CopyFromSlice(b, c.header_len, c.base)
                  ELSE b
        headed == CapHeader(c, based, ky, seq, ChunkIsLast(take, Len(img), off), take)
    IN  CopyFromSlice(headed, CapStart(c, seq), Slice(img, off, off + take))

\* write_button_image under the record cap, up to the loop (the key is
\* already translated: the loop only copies it into the header)
CapWriteCall(len) ==
    /\ pc = "idle"
    /\ CapInvariant(cap)
    /\ op' = "write_button_image"
    /\ key' = 0
    /\ nkey' = 0
    /\ image' = Image(len)
    /\ written' = << >>
    /\ sequence' = 0
    /\ offset' = 0
    /\ buf' = Zeros(cap.report_len)
    /\ pc' = "loop"
    /\ result' = "running"
    /\ UNCHANGED <<kind, rd, value, feature, cap>>

\* one iteration of while offset < image.len(), under the record cap
CapWriteChunk(ok) ==
    /\ pc = "loop"
    /\ offset < Len(image)
    /\ Len(written) < MaxReports
    /\ LET take == CapTake(cap, Len(image), offset, sequence) IN
        /\ buf' = CapReport(cap, buf, nkey, image, offset, sequence)
        /\ written' = Append(written,
                          Attempt(buf', ok, CapStart(cap, sequence), take, offset))
        /\ pc' = AfterWrite(ok, "loop")
        /\ result' = IF ok THEN "running" ELSE "Hid"
        /\ sequence' = IF ok THEN NextSequence(sequence) ELSE sequence
        /\ offset' = IF ok THEN NextOffset(offset, take) ELSE offset
    /\ UNCHANGED <<kind, op, key, image, nkey, rd, value, feature, cap>>

\* write_button_image(key, image) up to the match on self.kind
WriteCall(ky, len) ==
    /\ pc = "idle"
    /\ LET t == translate_key_index(kind, ky) IN
        /\ op' = "write_button_image"
        /\ key' = ky
        /\ image' = Image(len)
        /\ written' = << >>
        /\ sequence' = 0
        /\ offset' = 0
        /\ IF t.ok
           THEN /\ nkey' = t.val
                /\ buf' = Zeros(image_report_len(kind))
                /\ pc' = IF kind = "Original" THEN "first" ELSE "loop"
                /\ result' = "running"
           ELSE /\ nkey' = 0
                /\ buf' = << >>
                /\ pc' = "done"
                /\ result' = "InvalidKeyIndex"
    /\ UNCHANGED <<kind, rd, value, feature, cap>>

\* Kind::Original, first packet
WriteOriginalFirst(ok) ==
    /\ pc = "first"
    /\ LET hdrlen == image_report_header_len(kind)
           base   == image_base(kind)
           start  == hdrlen + Len(base)
           headed == write_image_header(kind, buf, nkey, 1, FALSE, 0)
           based  == CopyFromSlice(headed, hdrlen, base)
       IN  IF Len(image) < OriginalFirstLen
           THEN /\ buf' = based
                /\ pc' = "done"
                /\ result' = "panic"
                /\ UNCHANGED written
           ELSE /\ buf' = CopyFromSlice(based, start, Slice(image, 0, OriginalFirstLen))
                /\ written' = Append(written,
                                 Attempt(buf', ok, start, OriginalFirstLen, 0))
                /\ pc' = AfterWrite(ok, "second")
                /\ result' = IF ok THEN "running" ELSE "Hid"
    /\ UNCHANGED <<kind, op, key, image, nkey, sequence, offset, rd, value, feature, cap>>

\* Kind::Original, second packet
WriteOriginalSecond(ok) ==
    /\ pc = "second"
    /\ LET hdrlen == image_report_header_len(kind)
           headed == write_image_header(kind, buf, nkey, 2, TRUE, 0)
       IN  IF Len(image) < OriginalImageEnd
           THEN /\ buf' = headed
                /\ pc' = "done"
                /\ result' = "panic"
                /\ UNCHANGED written
           ELSE /\ buf' = CopyFromSlice(headed, hdrlen,
                                        Slice(image, OriginalFirstLen, OriginalImageEnd))
                /\ written' = Append(written,
                                 Attempt(buf', ok, hdrlen, OriginalSecondLen,
                                         OriginalFirstLen))
                /\ pc' = "done"
                /\ result' = IF ok THEN "Ok" ELSE "Hid"
    /\ UNCHANGED <<kind, op, key, image, nkey, sequence, offset, rd, value, feature, cap>>

\* one iteration of while offset < image.len()
WriteChunk(ok) ==
    /\ pc = "loop"
    /\ offset < Len(image)
    /\ LET take == ChunkTake(kind, Len(image), offset, sequence) IN
        /\ buf' = ChunkReport(kind, buf, nkey, image, offset, sequence)
        /\ written' = Append(written,
                          Attempt(buf', ok, ChunkStart(kind, sequence), take, offset))
        /\ pc' = AfterWrite(ok, "loop")
        /\ result' = IF ok THEN "running" ELSE "Hid"
        /\ sequence' = IF ok THEN NextSequence(sequence) ELSE sequence
        /\ offset' = IF ok THEN NextOffset(offset, take) ELSE offset
    /\ UNCHANGED <<kind, op, key, image, nkey, rd, value, feature, cap>>

\* the loop ends: Ok(())
WriteReturn ==
    /\ pc = "loop"
    /\ ~(offset < Len(image))
    /\ pc' = "done"
    /\ result' = "Ok"
    /\ UNCHANGED <<kind, op, key, image, nkey, buf, sequence, offset, written, rd, value, feature, cap>>

\* the caller takes the result; the StreamDeck keeps only its kind and device
Return ==
    /\ pc = "done"
    /\ pc' = "idle"
    /\ op' = "none"
    /\ key' = 0
    /\ image' = << >>
    /\ nkey' = 0
    /\ buf' = << >>
    /\ sequence' = 0
    /\ offset' = 0
    /\ written' = << >>
    /\ rd' = NoRead
    /\ result' = "none"
    /\ value' = NoValue
    /\ feature' = NoFeature
    /\ UNCHANGED <<kind, cap>>

Init ==
    /\ kind \in Kinds
    /\ pc = "idle"
    /\ op = "none"
    /\ key = 0
    /\ image = << >>
    /\ nkey = 0
    /\ buf = << >>
    /\ sequence = 0
    /\ offset = 0
    /\ written = << >>
    /\ rd = NoRead
    /\ result = "none"
    /\ value = NoValue
    /\ feature = NoFeature
    /\ cap = Capability(kind)

Next ==
    \/ \E ky \in KeyArgs(kind), len \in ImageLens(kind) : WriteCall(ky, len)
    \/ \E ok \in BOOLEAN : WriteOriginalFirst(ok)
    \/ \E ok \in BOOLEAN : WriteOriginalSecond(ok)
    \/ \E ok \in BOOLEAN : WriteChunk(ok)
    \/ WriteReturn
    \/ \E timeout \in BOOLEAN, report \in Reports(kind) :
          read_input(timeout, "report", report)
    \/ \E timeout \in BOOLEAN, outcome \in {"error", "nodata"} :
          read_input(timeout, outcome, << >>)
    \/ \E timeout \in BOOLEAN, report \in Reports(kind) :
          read_buttons(timeout, "report", report)
    \/ \E timeout \in BOOLEAN, outcome \in {"error", "nodata"} :
          read_buttons(timeout, outcome, << >>)
    \/ \E b \in Brightnesses, ok \in BOOLEAN : set_brightness(b, ok)
    \/ Return

Spec == Init /\ [][Next]_vars

\* The chunking loop under every capability record of CapRecords that
\* satisfies the table's invariant.
InitCap ==
    /\ kind = "Custom"
    /\ cap \in {c \in CapRecords : CapInvariant(c)}
    /\ pc = "idle"
    /\ op = "none"
    /\ key = 0
    /\ image = << >>
    /\ nkey = 0
    /\ buf = << >>
    /\ sequence = 0
    /\ offset = 0
    /\ written = << >>
    /\ rd = NoRead
    /\ result = "none"
    /\ value = NoValue
    /\ feature = NoFeature

NextCap ==
    \/ \E len \in 0..MaxCapImage : CapWriteCall(len)
    \/ \E ok \in BOOLEAN : CapWriteChunk(ok)
    \/ WriteReturn
    \/ Return

SpecCap == InitCap /\ [][NextCap]_vars

(***************************************************************************)
(* Reading a written report back.                                          *)
(***************************************************************************)
\* The sequence number and the is_last byte in a report's header.
HeaderSequence(k, r) ==
    IF is_v2(k) THEN U16FromLe(At(r, 6), At(r, 7)) ELSE U16FromLe(At(r, 2), At(r, 3))

HeaderIsLast(k, r) == IF is_v2(k) THEN At(r, 3) ELSE At(r, 4)

\* Where the claims place the i-th chunk (i from 1) of an image of L bytes.
RECURSIVE ExpectedFrom(_, _, _), ExpectedTake(_, _, _)
ExpectedRoom(k, i) ==
    image_report_len(k) - image_report_header_len(k)
        - (IF i = 1 THEN Len(image_base(k)) ELSE 0)

ExpectedFrom(k, L, i) ==
    IF i = 1 THEN 0 ELSE ExpectedFrom(k, L, i - 1) + ExpectedTake(k, L, i - 1)

ExpectedTake(k, L, i) == Min(L - ExpectedFrom(k, L, i), ExpectedRoom(k, i))

ExpectedStart(k, i) ==
    image_report_header_len(k) + (IF i = 1 THEN Len(image_base(k)) ELSE 0)

Writing == op = "write_button_image"

Reading == op \in {"read_input", "read_buttons"}

(***************************************************************************)
(* C1: for every kind but Original, the chunks written are consecutive     *)
(* slices of the image from offset 0, the i-th of length min(remaining,    *)
(* room of that chunk); when the call returns Ok their lengths sum to the  *)
(* image length, so the payloads concatenated are the image.               *)
(***************************************************************************)
C1_ChunksAreConsecutiveSlices ==
    (Writing /\ kind # "Original") =>
        /\ \A i \in 1..Len(written) :
             LET a     == written[i]
                 from  == ExpectedFrom(kind, Len(image), i)
                 take  == ExpectedTake(kind, Len(image), i)
                 start == ExpectedStart(kind, i)
             IN  /\ a.from = from
                 /\ a.take = take
                 /\ a.start = start
                 /\ start + take <= Len(a.report)
                 /\ Slice(a.report, start, start + take) = Slice(image, from, from + take)
        /\ result = "Ok" =>
             ExpectedFrom(kind, Len(image), Len(written) + 1) = Len(image)

\* A Mini transfer (base in the first chunk) of three chunks that returned Ok.
C1_Witness ==
    /\ Writing /\ kind = "Mini" /\ result = "Ok"
    /\ Len(written) = 3
    /\ written[3].take < ExpectedRoom(kind, 3)

(***************************************************************************)
(* C2: for every kind but Original, the reports of a transfer carry the    *)
(* sequence numbers 0, 1, ... in write order; a report with is_last set is *)
(* the last one written, and the last report of a call that returned Ok    *)
(* has is_last set.                                                        *)
(***************************************************************************)
C2_SequenceAndIsLast ==
    (Writing /\ kind # "Original") =>
        /\ \A i \in 1..Len(written) :
             /\ HeaderSequence(kind, written[i].report) = i - 1
             /\ HeaderIsLast(kind, written[i].report) \in {0, 1}
             /\ HeaderIsLast(kind, written[i].report) = 1 => i = Len(written)
        /\ (result = "Ok" /\ Len(written) > 0) =>
             HeaderIsLast(kind, written[Len(written)].report) = 1

\* A v2 transfer of three reports that returned Ok.
C2_Witness ==
    /\ Writing /\ kind = "Xl" /\ result = "Ok"
    /\ Len(written) = 3

(***************************************************************************)
(* C3: for Original, a call that returned Ok wrote exactly two reports:    *)
(* the first with sequence 1, is_last 0, image_base right after the header *)
(* and image bytes [0,7749) after it; the second with sequence 2, is_last  *)
(* 1 and image bytes [7749,15552) right after the header.                  *)
(***************************************************************************)
C3_OriginalTwoPackets ==
    (Writing /\ kind = "Original" /\ result = "Ok") =>
        /\ Len(written) = 2
        /\ LET hdr  == image_report_header_len(kind)
               base == image_base(kind)
               r1   == written[1].report
               r2   == written[2].report
           IN  /\ HeaderSequence(kind, r1) = 1
               /\ HeaderIsLast(kind, r1) = 0
               /\ Slice(r1, hdr, hdr + Len(base)) = base
               /\ Slice(r1, hdr + Len(base), hdr + Len(base) + 7749) = Slice(image, 0, 7749)
               /\ HeaderSequence(kind, r2) = 2
               /\ HeaderIsLast(kind, r2) = 1
               /\ Slice(r2, hdr, hdr + 7803) = Slice(image, 7749, 15552)

\* Original returned Ok for a full 72x72 BMP payload.
C3_Witness ==
    /\ Writing /\ kind = "Original" /\ result = "Ok"
    /\ Len(image) = 15552
    /\ Len(written) = 2

(***************************************************************************)
(* C4: a logical key >= keys (keys itself included) makes                  *)
(* write_button_image return InvalidKeyIndex with no report written.       *)
(***************************************************************************)
C4_KeysAtOrPastCountRejected ==
    (Writing /\ key >= keys(kind)) =>
        /\ result = "InvalidKeyIndex"
        /\ written = << >>

(***************************************************************************)
(* C5, as claimed: key translation is a bijection of [0, keys) onto        *)
(* [0, keys) for every kind, the identity for LeftToRight; stated of the   *)
(* kind of a device whose writer has translated a key of that range.       *)
(***************************************************************************)
C5_BijectionOntoZeroBased ==
    LET K == 0..(keys(kind) - 1) IN
    (Writing /\ key \in K) =>
        /\ \A i \in K : translate_key_index(kind, i).ok
        /\ \A i, j \in K :
             translate_key_index(kind, i).val = translate_key_index(kind, j).val => i = j
        /\ key_direction(kind) = "LeftToRight" =>
             \A i \in K : translate_key_index(kind, i).val = i
        /\ {translate_key_index(kind, i).val : i \in K} = K

(***************************************************************************)
(* C5, amended: key translation of the logical keys [0, keys) never fails  *)
(* and is one-to-one; it is the identity for LeftToRight kinds, and for    *)
(* RightToLeft kinds it is row*columns + columns - col, whose values are   *)
(* exactly [1, keys] (1-relative, not [0, keys)).  The writer addresses    *)
(* the report with that value.                                             *)
(***************************************************************************)
C5_BijectionOneRelative ==
    LET K == 0..(keys(kind) - 1) IN
        /\ \A i \in K : translate_key_index(kind, i).ok
        /\ \A i, j \in K :
             translate_key_index(kind, i).val = translate_key_index(kind, j).val => i = j
        /\ key_direction(kind) = "LeftToRight" =>
             \A i \in K : translate_key_index(kind, i).val = i
        /\ key_direction(kind) = "RightToLeft" =>
             /\ \A i \in K :
                  translate_key_index(kind, i).val =
                      (i \div key_columns(kind)) * key_columns(kind)
                          + key_columns(kind) - (i % key_columns(kind))
             /\ {translate_key_index(kind, i).val : i \in K} = 1..keys(kind)
        /\ (Writing /\ key \in K) =>
             /\ result # "InvalidKeyIndex"
             /\ nkey = translate_key_index(kind, key).val

\* Original: the first key of the last row is addressed as native key 15 = keys.
C5_Witness ==
    /\ Writing /\ kind = "Original"
    /\ key = keys(kind) - key_columns(kind)
    /\ nkey = keys(kind)
    /\ Len(written) > 0

(***************************************************************************)
(* C6: a report with a non-zero first byte and tag bytes (0x00, 0x08)      *)
(* makes read_input return Button(v), v of length keys, with               *)
(* v[i] = report[1 + key_data_offset + i] on LeftToRight kinds and         *)
(* v[i] = report[key_data_offset + translate(i)] on RightToLeft kinds.     *)
(***************************************************************************)
C6_ButtonReportDecoding ==
    ( /\ op = "read_input" /\ rd.outcome = "report"
      /\ At(rd.cmd, 0) # 0 /\ At(rd.cmd, 1) = 0 /\ At(rd.cmd, 2) = 8 ) =>
        /\ result = "Ok"
        /\ value.type = "Button"
        /\ Len(value.states) = keys(kind)
        /\ \A i \in 0..(keys(kind) - 1) :
             LET cols == key_columns(kind)
                 off  == key_data_offset(kind)
             IN  At(value.states, i) =
                    IF key_direction(kind) = "LeftToRight"
                    THEN At(rd.cmd, 1 + off + i)
                    ELSE At(rd.cmd, off + (i \div cols) * cols + cols - (i % cols))

\* An Original button report whose key bytes all differ has been decoded.
C6_Witness ==
    /\ op = "read_input" /\ kind = "Original" /\ rd.outcome = "report"
    /\ At(rd.cmd, 0) # 0 /\ At(rd.cmd, 1) = 0 /\ At(rd.cmd, 2) = 8
    /\ At(rd.cmd, 15) # 0
    /\ result = "Ok"
    /\ At(value.states, 10) = At(rd.cmd, 15)

(***************************************************************************)
(* C7: a read with a timeout that expires with no bytes read ends in       *)
(* something other than the NoData error of an all-zero report.            *)
(***************************************************************************)
C7_TimeoutDistinctFromNoData ==
    (Reading /\ rd.timeout /\ rd.outcome = "nodata") => result # "NoData"

(***************************************************************************)
(* C8: for a report with a non-zero first byte read_input returns a value  *)
(* and never aborts; a touch report with a sub-tag other than (1,1), (2,1),*)
(* (3,0) and a knob report with a sub-tag other than 0, 1 decode to Other. *)
(***************************************************************************)
C8_UnknownSubTagsDecodeToOther ==
    (op = "read_input" /\ rd.outcome = "report" /\ At(rd.cmd, 0) # 0) =>
        /\ result # "panic"
        /\ ( /\ At(rd.cmd, 1) = 2 /\ At(rd.cmd, 2) = 14
             /\ << At(rd.cmd, 4), At(rd.cmd, 5) >> \notin { <<1, 1>>, <<2, 1>>, <<3, 0>> } ) =>
               (result = "Ok" /\ value.type = "Other")
        /\ ( /\ At(rd.cmd, 1) = 3 /\ At(rd.cmd, 2) = 5
             /\ At(rd.cmd, 4) \notin {0, 1} ) =>
               (result = "Ok" /\ value.type = "Other")

(***************************************************************************)
(* C9: when a HID write of a transfer fails, the call returns that         *)
(* transport error at once: the failed write is the last write of the      *)
(* transfer, so nothing is written after it and it is not written again.   *)
(***************************************************************************)
C9_FailedWriteEndsTransfer ==
    Writing =>
        /\ \A i \in 1..Len(written) :
             ~written[i].ok => (i = Len(written) /\ pc = "done" /\ result = "Hid")
        /\ result = "Hid" => (Len(written) > 0 /\ ~written[Len(written)].ok)

\* The second write of a transfer that had more to send failed.
C9_Witness ==
    /\ Writing /\ result = "Hid"
    /\ Len(written) = 2
    /\ written[1].ok /\ ~written[2].ok
    /\ written[2].from + written[2].take < Len(image)

(***************************************************************************)
(* C10: in every report written, every byte outside the header, the        *)
(* image_base copy (first chunk) and the chunk's own payload is zero.      *)
(***************************************************************************)
C10_UnusedBytesAreZero ==
    Writing =>
        \A i \in 1..Len(written) :
            LET a == written[i] IN
            \A j \in (a.start + a.take)..(Len(a.report) - 1) : At(a.report, j) = 0

(***************************************************************************)
(* C11: for every kind and every image length, every range of image bytes  *)
(* write_button_image takes lies within [0, data.len()): no transfer ends  *)
(* in the panic of an out-of-range image slice, and every chunk written    *)
(* was taken from inside the image.                                        *)
(***************************************************************************)
C11_ImageRangesWithinData ==
    Writing =>
        /\ result # "panic"
        /\ \A i \in 1..Len(written) :
             /\ written[i].from >= 0
             /\ written[i].from + written[i].take <= Len(image)

(***************************************************************************)
(* C12: for every brightness b in 0..255 and every kind, set_brightness    *)
(* sends a 17-byte feature report: [0x03, 0x08, min(b, 100)] on v2 kinds,  *)
(* [0x05, 0x55, 0xaa, 0xd1, 0x01, min(b, 100)] on legacy kinds, and zeros  *)
(* after it; so 150 sends the report that 100 sends.                       *)
(***************************************************************************)
C12_BrightnessReport ==
    op = "set_brightness" =>
        LET r  == feature.report
            m  == IF feature.arg > 100 THEN 100 ELSE feature.arg
            hd == IF kind \in {"OriginalV2", "Xl", "Mk2", "Plus"}
                  THEN << 3, 8, m >>
                  ELSE << 5, 85, 170, 209, 1, m >>
        IN  /\ Len(r) = 17
            /\ \A j \in 1..17 : r[j] = IF j <= Len(hd) THEN hd[j] ELSE 0

\* set_brightness(150) on a legacy kind sent the byte 100.
C12_Witness ==
    /\ op = "set_brightness" /\ kind = "Mini" /\ result = "Ok"
    /\ feature.arg = 150
    /\ At(feature.report, 5) = 100

KeyByteIndices(k) ==
    {IF key_direction(k) = "LeftToRight"
     THEN 1 + key_data_offset(k) + i
     ELSE key_data_offset(k) + (i \div key_columns(k)) * key_columns(k)
              + key_columns(k) - (i % key_columns(k)) : i \in 0..(keys(k) - 1)}

\* The variant of Input (or the error) a report decodes to.
Classification(k, report) ==
    LET d == DecodeInput(k, TransportRead(k, "report", report))
    IN  IF d.result = "Ok" THEN d.value.type ELSE d.result

C14_TagBytesAreNotKeyBytes ==
    (op = "read_input" /\ rd.outcome = "report" /\ At(rd.cmd, 0) # 0) =>
        /\ KeyByteIndices(kind) \cap {1, 2} = {}
        /\ (result = "Ok" /\ value.type = "Button") =>
             \A r \in Reports(kind) :
                (\A j \in 0..(Len(r) - 1) :
                    j \notin KeyByteIndices(kind) => At(r, j) = At(rd.cmd, j))
                    => Classification(kind, r) = "Button"

====
